---- MODULE Spec2Model ----
(***************************************************************************)
(* Model of supervisor/poller.py: the three poller backends (SelectPoller, *)
(* PollPoller, KQueuePoller), the module-level backend selection, and the  *)
(* operating-system wait primitives each backend delegates to.             *)
(*                                                                         *)
(* Event masks are modelled as sets of flag names (a bitmask is the set of *)
(* its bits; `a & b` is intersection, `a | b` is union).  The kqueue       *)
(* filters keep their integer values because the code combines them with   *)
(* the integer operator `|`.  The lists a wait primitive returns are taken in *)
(* ascending descriptor order where the primitive leaves the order open.    *)
(***************************************************************************)
EXTENDS Integers, Sequences, FiniteSets, TLC

(* ---------------------------- bounds ----------------------------------- *)
\* most entries the two SelectPoller lists hold together
MaxLen == 2

\* The descriptors in play.  Every operation of the pollers and of the wait
\* primitives acts on each descriptor independently of the others, and the
\* properties checked relate at most two descriptors.
FDs == {1, 2}

(* ------------------------- program constants --------------------------- *)
KQ_FILTER_READ == -1
KQ_FILTER_WRITE == -2
max_events == 1000

POLLIN == "POLLIN"
POLLPRI == "POLLPRI"
POLLOUT == "POLLOUT"
POLLHUP == "POLLHUP"
POLLNVAL == "POLLNVAL"

READ == {POLLIN, POLLPRI, POLLHUP}
WRITE == {POLLOUT}

NoError == "none"
WaitErrors == {"EINTR", "ENOMEM"}

VARIABLES
    has_kqueue,     \* hasattr(select, 'kqueue')
    has_poll,       \* hasattr(select, 'poll')
    Poller,         \* the backend class bound at module load
    open,           \* descriptors whose resource is open
    readable,       \* SelectPoller.readable
    writable,       \* SelectPoller.writable
    _poller,        \* PollPoller._poller: fd -> registered eventmask
    _kqueue,        \* KQueuePoller._kqueue: set of <<ident, filter>>
    op,             \* the call that produced this state
    arg,            \* its descriptor argument (0 when it has none)
    raised,         \* the exception that call propagated, or NoError
    wait_err,       \* the error the wait call of the last poll hit
    r,              \* first list returned by the last poll
    w,              \* second list returned by the last poll
    fds,            \* the batch the wait call of the last poll returned: (fd, eventmask)
                    \* pairs in PollPoller, (ident, filter) kevents in KQueuePoller
    rdy_r,          \* descriptors that were read-ready in the last poll
    rdy_w,          \* descriptors that were write-ready in the last poll
    rdy_hup,        \* descriptors that had a hang-up in the last poll
    reg_r,          \* history: register_readable returned, no unregister/purge since
    reg_w,          \* history: register_writable returned, no unregister/purge since
    unregd,         \* history: unregister returned, no register since
    closed_reg,     \* history: closed with a registration no poll has dealt with yet
    purged          \* history: closed while registered, and a poll has returned with
                    \* the registration gone

regvars == <<readable, writable, _poller, _kqueue>>
histvars == <<reg_r, reg_w, unregd, closed_reg, purged>>
resvars == <<r, w, fds, rdy_r, rdy_w, rdy_hup, wait_err>>
vars == <<has_kqueue, has_poll, Poller, open, readable, writable, _poller,
          _kqueue, op, arg, raised, wait_err, r, w, fds, rdy_r, rdy_w,
          rdy_hup, reg_r, reg_w, unregd, closed_reg, purged>>

(* ----------------------------- helpers --------------------------------- *)
Range(s) == {s[i] : i \in 1..Len(s)}

\* Python `x in list`
list_contains(s, x) == \E i \in 1..Len(s) : s[i] = x

\* Python list.remove(x): deletes the first occurrence only
list_remove(s, x) ==
    LET i == CHOOSE k \in 1..Len(s) : s[k] = x /\ \A j \in 1..(k-1) : s[j] # x
    IN  SubSeq(s, 1, i-1) \o SubSeq(s, i+1, Len(s))

RECURSIVE SortedSeq(_)
SortedSeq(S) ==
    IF S = {} THEN <<>>
    ELSE LET m == CHOOSE x \in S : \A y \in S : x <= y
         IN  <<m>> \o SortedSeq(S \ {m})

RECURSIVE SeqFilter(_, _)
SeqFilter(s, S) ==
    IF s = <<>> THEN <<>>
    ELSE (IF Head(s) \in S THEN <<Head(s)>> ELSE <<>>) \o SeqFilter(Tail(s), S)

Min(a, b) == IF a <= b THEN a ELSE b

\* Python `a | b` on integers: bitwise or of the two's-complement expansions
\* (a negative integer has infinitely many leading one bits)
RECURSIVE BitOr(_, _)
BitOr(a, b) ==
    IF a = 0 THEN b
    ELSE IF b = 0 THEN a
    ELSE IF a = -1 \/ b = -1 THEN -1
    ELSE (IF a % 2 = 1 \/ b % 2 = 1 THEN 1 ELSE 0) + 2 * BitOr(a \div 2, b \div 2)

(* ---------------------- backend selection ------------------------------ *)
implements_poll == has_poll
implements_kqueue == has_kqueue

\* variant: the poll test comes first
SelectBackend_poll_first(kq, pl) ==
    IF pl THEN "PollPoller"
    ELSE IF kq THEN "KQueuePoller"
    ELSE "SelectPoller"

SelectBackend(kq, pl) ==
    IF kq THEN "KQueuePoller"
    ELSE IF pl THEN "PollPoller"
    ELSE "SelectPoller"

(* --------------------- operating-system primitives --------------------- *)
\* select.select(rlist, wlist, [], timeout): EBADF when a listed descriptor
\* is closed; otherwise each input entry whose descriptor is ready is
\* returned, in input order, once per input entry.
select_select(rlist, wlist, rr, ww, e) ==
    IF \E fd \in Range(rlist) \cup Range(wlist) : fd \notin open
    THEN [err |-> "EBADF", r |-> <<>>, w |-> <<>>]
    ELSE IF e # NoError
    THEN [err |-> e, r |-> <<>>, w |-> <<>>]
    ELSE [err |-> NoError, r |-> SeqFilter(rlist, rr), w |-> SeqFilter(wlist, ww)]

\* revents of one poll-table entry: POLLNVAL for a closed descriptor,
\* otherwise the requested conditions that hold plus the always-reported ones.
poll_revents(tbl, fd, rr, ww, hh) ==
    IF fd \notin open THEN {POLLNVAL}
    ELSE LET cond == (IF fd \in rr THEN {POLLIN} ELSE {})
                     \cup (IF fd \in ww THEN {POLLOUT} ELSE {})
                     \cup (IF fd \in hh THEN {POLLHUP} ELSE {})
         IN  cond \cap (tbl[fd] \cup {POLLHUP, POLLNVAL})

\* select.poll().poll(ms): the entries with a non-empty revents
poll_poll(tbl, rr, ww, hh, e) ==
    IF e # NoError THEN [err |-> e, fds |-> <<>>]
    ELSE LET hit == {fd \in DOMAIN tbl : poll_revents(tbl, fd, rr, ww, hh) # {}}
             s == SortedSeq(hit)
         IN  [err |-> NoError,
              fds |-> [i \in 1..Len(s) |-> <<s[i], poll_revents(tbl, s[i], rr, ww, hh)>>]]

\* select.poll().register(fd, mask): adds the entry or replaces its mask
poll_register(tbl, fd, mask) ==
    [x \in DOMAIN tbl \cup {fd} |-> IF x = fd THEN mask ELSE tbl[x]]

\* select.poll().unregister(fd): KeyError when fd has no entry
poll_unregister(tbl, fd) ==
    IF fd \in DOMAIN tbl
    THEN [err |-> NoError, tbl |-> [x \in DOMAIN tbl \ {fd} |-> tbl[x]]]
    ELSE [err |-> "KeyError", tbl |-> tbl]

\* kqueue.control([kevent(fd, filter, KQ_EV_ADD)], 0)
kqueue_add(kq, fd, filter) ==
    IF fd \notin open THEN [err |-> "EBADF", kq |-> kq]
    ELSE [err |-> NoError, kq |-> kq \cup {<<fd, filter>>}]

\* kqueue.control([kevent(fd, filter, KQ_EV_DELETE)], 0)
kqueue_delete(kq, fd, filter) ==
    IF fd \notin open THEN [err |-> "EBADF", kq |-> kq]
    ELSE IF <<fd, filter>> \notin kq THEN [err |-> "ENOENT", kq |-> kq]
    ELSE [err |-> NoError, kq |-> kq \ {<<fd, filter>>}]

EventKey(ev) == 2 * ev[1] + (IF ev[2] = KQ_FILTER_READ THEN 0 ELSE 1)

RECURSIVE SortedEvents(_)
SortedEvents(S) ==
    IF S = {} THEN <<>>
    ELSE LET m == CHOOSE x \in S : \A y \in S : EventKey(x) <= EventKey(y)
         IN  <<m>> \o SortedEvents(S \ {m})

\* kqueue.control(None, max_events, timeout): at most max_events pending events
kqueue_events(kq, rr, ww, nmax, e) ==
    IF e # NoError THEN [err |-> e, kevents |-> <<>>]
    ELSE LET pend == {ev \in kq : \/ ev[2] = KQ_FILTER_READ /\ ev[1] \in rr
                                  \/ ev[2] = KQ_FILTER_WRITE /\ ev[1] \in ww}
             s == SortedEvents(pend)
         IN  [err |-> NoError, kevents |-> SubSeq(s, 1, Min(nmax, Len(s)))]

(* ------------------------------ SelectPoller --------------------------- *)
SelectPoller_register_readable(fd) ==
    /\ Len(readable) + Len(writable) < MaxLen
    /\ readable' = Append(readable, fd)
    /\ raised' = NoError
    /\ UNCHANGED <<writable, _poller, _kqueue>>

SelectPoller_register_writable(fd) ==
    /\ Len(readable) + Len(writable) < MaxLen
    /\ writable' = Append(writable, fd)
    /\ raised' = NoError
    /\ UNCHANGED <<readable, _poller, _kqueue>>

\* variant: list.remove without the membership test (ValueError when absent)
SelectPoller_unregister_unguarded(fd) ==
    /\ readable' = IF list_contains(readable, fd) THEN list_remove(readable, fd) ELSE readable
    /\ writable' = IF list_contains(readable, fd) /\ list_contains(writable, fd)
                   THEN list_remove(writable, fd) ELSE writable
    /\ raised' = IF list_contains(readable, fd) /\ list_contains(writable, fd)
                 THEN NoError ELSE "ValueError"
    /\ UNCHANGED <<_poller, _kqueue>>

SelectPoller_unregister(fd) ==
    /\ readable' = IF list_contains(readable, fd) THEN list_remove(readable, fd) ELSE readable
    /\ writable' = IF list_contains(writable, fd) THEN list_remove(writable, fd) ELSE writable
    /\ raised' = NoError
    /\ UNCHANGED <<_poller, _kqueue>>

\* variant: unregister_all resets only the writable list
SelectPoller_unregister_all_writable_only == [readable |-> readable, writable |-> <<>>]

\* the value of (readable, writable) after unregister_all
SelectPoller_unregister_all == [readable |-> <<>>, writable |-> <<>>]

\* variant: no EBADF branch, the error propagates
SelectPoller_poll_result_no_ebadf(res) ==
    IF res.err = "EINTR"
    THEN [raised |-> NoError, r |-> <<>>, w |-> <<>>,
          readable |-> readable, writable |-> writable]
    ELSE IF res.err # NoError
    THEN [raised |-> res.err, r |-> <<>>, w |-> <<>>,
          readable |-> readable, writable |-> writable]
    ELSE [raised |-> NoError, r |-> res.r, w |-> res.w,
          readable |-> readable, writable |-> writable]

\* variant: EINTR handled by the EBADF branch
SelectPoller_poll_result_eintr_clears(res) ==
    IF res.err \in {"EINTR", "EBADF"}
    THEN [raised |-> NoError, r |-> <<>>, w |-> <<>>,
          readable |-> <<>>, writable |-> <<>>]
    ELSE IF res.err # NoError
    THEN [raised |-> res.err, r |-> <<>>, w |-> <<>>,
          readable |-> readable, writable |-> writable]
    ELSE [raised |-> NoError, r |-> res.r, w |-> res.w,
          readable |-> readable, writable |-> writable]

\* what poll does with the outcome of the select call
SelectPoller_poll_result(res) ==
    IF res.err = "EINTR"
    THEN [raised |-> NoError, r |-> <<>>, w |-> <<>>,
          readable |-> readable, writable |-> writable]
    ELSE IF res.err = "EBADF"
    THEN [raised |-> NoError, r |-> <<>>, w |-> <<>>,
          readable |-> SelectPoller_unregister_all.readable,
          writable |-> SelectPoller_unregister_all.writable]
    ELSE IF res.err # NoError
    THEN [raised |-> res.err, r |-> <<>>, w |-> <<>>,
          readable |-> readable, writable |-> writable]
    ELSE [raised |-> NoError, r |-> res.r, w |-> res.w,
          readable |-> readable, writable |-> writable]

SelectPoller_poll(rr, ww, e) ==
    LET res == select_select(readable, writable, rr, ww, e)
        out == SelectPoller_poll_result(res)
    IN  /\ wait_err' = res.err
        /\ raised' = out.raised
        /\ r' = out.r
        /\ w' = out.w
        /\ fds' = <<>>
        /\ readable' = out.readable
        /\ writable' = out.writable
        /\ UNCHANGED <<_poller, _kqueue>>

(* ------------------------------- PollPoller ---------------------------- *)
PollPoller_register_readable(fd) ==
    /\ _poller' = poll_register(_poller, fd, READ)
    /\ raised' = NoError
    /\ UNCHANGED <<readable, writable, _kqueue>>

PollPoller_register_writable(fd) ==
    /\ _poller' = poll_register(_poller, fd, WRITE)
    /\ raised' = NoError
    /\ UNCHANGED <<readable, writable, _kqueue>>

\* variant: a KeyError of the table's unregister is swallowed
PollPoller_unregister_tolerant(fd) ==
    LET res == poll_unregister(_poller, fd)
    IN  /\ _poller' = res.tbl
        /\ raised' = NoError
        /\ UNCHANGED <<readable, writable, _kqueue>>

PollPoller_unregister(fd) ==
    LET res == poll_unregister(_poller, fd)
    IN  /\ _poller' = res.tbl
        /\ raised' = res.err
        /\ UNCHANGED <<readable, writable, _kqueue>>

\* variant: every select.error is swallowed
PollPoller__poll_fds_swallow(res) ==
    IF res.err # NoError THEN [raised |-> NoError, fds |-> <<>>]
    ELSE [raised |-> NoError, fds |-> res.fds]

\* _poll_fds: EINTR becomes an empty batch, any other error propagates
PollPoller__poll_fds(res) ==
    IF res.err = "EINTR" THEN [raised |-> NoError, fds |-> <<>>]
    ELSE IF res.err # NoError THEN [raised |-> res.err, fds |-> <<>>]
    ELSE [raised |-> NoError, fds |-> res.fds]

\* variant: the test looks at the hang-up bit
PollPoller__ignore_invalid_hup(fd, eventmask) == eventmask \cap {POLLHUP} # {}

\* _ignore_invalid's test
PollPoller__ignore_invalid(fd, eventmask) == eventmask \cap {POLLNVAL} # {}

\* variant: a descriptor reported with a hang-up is dropped from the table
PollPoller_poll_step_drop_hup(st, pair) ==
    LET fd == pair[1]
        eventmask == pair[2]
    IN  IF PollPoller__ignore_invalid(fd, eventmask)
        THEN LET u == poll_unregister(st.tbl, fd)
             IN  [st EXCEPT !.tbl = u.tbl, !.raised = u.err]
        ELSE [st EXCEPT
                !.tbl = IF POLLHUP \in eventmask
                        THEN poll_unregister(st.tbl, fd).tbl ELSE st.tbl,
                !.readables = IF eventmask \cap READ # {}
                              THEN Append(st.readables, fd) ELSE st.readables,
                !.writables = IF eventmask \cap WRITE # {}
                              THEN Append(st.writables, fd) ELSE st.writables]

\* one iteration of the loop of poll over the pair batch[i], on the loop
\* state st = [tbl, readables, writables, raised]
PollPoller_poll_step(st, pair) ==
    LET fd == pair[1]
        eventmask == pair[2]
    IN  IF PollPoller__ignore_invalid(fd, eventmask)
        THEN LET u == poll_unregister(st.tbl, fd)
             IN  [st EXCEPT !.tbl = u.tbl, !.raised = u.err]
        ELSE [st EXCEPT
                !.readables = IF eventmask \cap READ # {}
                              THEN Append(st.readables, fd) ELSE st.readables,
                !.writables = IF eventmask \cap WRITE # {}
                              THEN Append(st.writables, fd) ELSE st.writables]

RECURSIVE PollPoller_poll_loop(_, _, _)
PollPoller_poll_loop(st, batch, i) ==
    IF i > Len(batch) \/ st.raised # NoError THEN st
    ELSE PollPoller_poll_loop(PollPoller_poll_step(st, batch[i]), batch, i + 1)

PollPoller_poll(rr, ww, hh, e) ==
    LET res == poll_poll(_poller, rr, ww, hh, e)
        got == PollPoller__poll_fds(res)
        st0 == [tbl |-> _poller, readables |-> <<>>, writables |-> <<>>,
                raised |-> got.raised]
        st == PollPoller_poll_loop(st0, got.fds, 1)
    IN  /\ wait_err' = res.err
        /\ fds' = got.fds
        /\ raised' = st.raised
        /\ r' = IF st.raised = NoError THEN st.readables ELSE <<>>
        /\ w' = IF st.raised = NoError THEN st.writables ELSE <<>>
        /\ _poller' = st.tbl
        /\ UNCHANGED <<readable, writable, _kqueue>>

(* ------------------------------ KQueuePoller --------------------------- *)
KQueuePoller_register_readable(fd) ==
    LET res == kqueue_add(_kqueue, fd, KQ_FILTER_READ)
    IN  /\ _kqueue' = res.kq
        /\ raised' = res.err
        /\ UNCHANGED <<readable, writable, _poller>>

KQueuePoller_register_writable(fd) ==
    LET res == kqueue_add(_kqueue, fd, KQ_FILTER_WRITE)
    IN  /\ _kqueue' = res.kq
        /\ raised' = res.err
        /\ UNCHANGED <<readable, writable, _poller>>

\* the filter field of the kevent that unregister builds
KQueuePoller_unregister_filter == BitOr(KQ_FILTER_READ, KQ_FILTER_WRITE)

KQueuePoller_unregister(fd) ==
    LET res == kqueue_delete(_kqueue, fd, KQueuePoller_unregister_filter)
    IN  /\ _kqueue' = res.kq
        /\ raised' = res.err
        /\ UNCHANGED <<readable, writable, _poller>>

RECURSIVE KQueuePoller_classify(_, _)
KQueuePoller_classify(kevents, filter) ==
    IF kevents = <<>> THEN <<>>
    ELSE (IF Head(kevents)[2] = filter THEN <<Head(kevents)[1]>> ELSE <<>>)
         \o KQueuePoller_classify(Tail(kevents), filter)

\* variant: a kevent that is not a read event is also appended to readables
KQueuePoller_poll_result_all_readable(res) ==
    IF res.err = "EINTR" THEN [raised |-> NoError, r |-> <<>>, w |-> <<>>]
    ELSE IF res.err # NoError THEN [raised |-> res.err, r |-> <<>>, w |-> <<>>]
    ELSE [raised |-> NoError,
          r |-> [i \in 1..Len(res.kevents) |-> res.kevents[i][1]],
          w |-> KQueuePoller_classify(res.kevents, KQ_FILTER_WRITE)]

KQueuePoller_poll_result(res) ==
    IF res.err = "EINTR" THEN [raised |-> NoError, r |-> <<>>, w |-> <<>>]
    ELSE IF res.err # NoError THEN [raised |-> res.err, r |-> <<>>, w |-> <<>>]
    ELSE [raised |-> NoError,
          r |-> KQueuePoller_classify(res.kevents, KQ_FILTER_READ),
          w |-> KQueuePoller_classify(res.kevents, KQ_FILTER_WRITE)]

KQueuePoller_poll(rr, ww, e) ==
    LET res == kqueue_events(_kqueue, rr, ww, max_events, e)
        out == KQueuePoller_poll_result(res)
    IN  /\ wait_err' = res.err
        /\ raised' = out.raised
        /\ r' = out.r
        /\ w' = out.w
        /\ fds' = res.kevents
        /\ UNCHANGED <<readable, writable, _poller, _kqueue>>

(* --------------------- registrations held by a backend ----------------- *)
\* the backend state holds a read-interest registration of fd
HoldsRead(fd) ==
    \/ Poller = "SelectPoller" /\ list_contains(readable, fd)
    \/ Poller = "PollPoller" /\ fd \in DOMAIN _poller /\ POLLIN \in _poller[fd]
    \/ Poller = "KQueuePoller" /\ <<fd, KQ_FILTER_READ>> \in _kqueue

\* the backend state holds a write-interest registration of fd
HoldsWrite(fd) ==
    \/ Poller = "SelectPoller" /\ list_contains(writable, fd)
    \/ Poller = "PollPoller" /\ fd \in DOMAIN _poller /\ POLLOUT \in _poller[fd]
    \/ Poller = "KQueuePoller" /\ <<fd, KQ_FILTER_WRITE>> \in _kqueue

Holds(fd) == HoldsRead(fd) \/ HoldsWrite(fd)

(* ------------------------------- actions ------------------------------- *)
Init ==
    /\ has_kqueue \in BOOLEAN
    /\ has_poll \in BOOLEAN
    /\ Poller = SelectBackend(implements_kqueue, implements_poll)
    /\ open = FDs
    /\ readable = <<>>
    /\ writable = <<>>
    /\ _poller = <<>>
    /\ _kqueue = {}
    /\ op = "init"
    /\ arg = 0
    /\ raised = NoError
    /\ wait_err = NoError
    /\ r = <<>>
    /\ w = <<>>
    /\ fds = <<>>
    /\ rdy_r = {}
    /\ rdy_w = {}
    /\ rdy_hup = {}
    /\ reg_r = {}
    /\ reg_w = {}
    /\ unregd = {}
    /\ closed_reg = {}
    /\ purged = {}

\* a call other than poll leaves no wait result behind
NoResult ==
    /\ wait_err' = NoError
    /\ r' = <<>>
    /\ w' = <<>>
    /\ fds' = <<>>
    /\ rdy_r' = {}
    /\ rdy_w' = {}
    /\ rdy_hup' = {}

RegisterReadable(fd) ==
    /\ CASE Poller = "SelectPoller" -> SelectPoller_register_readable(fd)
         [] Poller = "PollPoller" -> PollPoller_register_readable(fd)
         [] Poller = "KQueuePoller" -> KQueuePoller_register_readable(fd)
    /\ op' = "register_readable"
    /\ arg' = fd
    /\ NoResult
    /\ reg_r' = IF raised' = NoError THEN reg_r \cup {fd} ELSE reg_r
    /\ unregd' = IF raised' = NoError THEN unregd \ {fd} ELSE unregd
    /\ purged' = IF raised' = NoError THEN purged \ {fd} ELSE purged
    /\ closed_reg' = IF raised' = NoError /\ fd \notin open
                     THEN closed_reg \cup {fd} ELSE closed_reg
    /\ UNCHANGED <<has_kqueue, has_poll, Poller, open, reg_w>>

RegisterWritable(fd) ==
    /\ CASE Poller = "SelectPoller" -> SelectPoller_register_writable(fd)
         [] Poller = "PollPoller" -> PollPoller_register_writable(fd)
         [] Poller = "KQueuePoller" -> KQueuePoller_register_writable(fd)
    /\ op' = "register_writable"
    /\ arg' = fd
    /\ NoResult
    /\ reg_w' = IF raised' = NoError THEN reg_w \cup {fd} ELSE reg_w
    /\ unregd' = IF raised' = NoError THEN unregd \ {fd} ELSE unregd
    /\ purged' = IF raised' = NoError THEN purged \ {fd} ELSE purged
    /\ closed_reg' = IF raised' = NoError /\ fd \notin open
                     THEN closed_reg \cup {fd} ELSE closed_reg
    /\ UNCHANGED <<has_kqueue, has_poll, Poller, open, reg_r>>

Unregister(fd) ==
    /\ CASE Poller = "SelectPoller" -> SelectPoller_unregister(fd)
         [] Poller = "PollPoller" -> PollPoller_unregister(fd)
         [] Poller = "KQueuePoller" -> KQueuePoller_unregister(fd)
    /\ op' = "unregister"
    /\ arg' = fd
    /\ NoResult
    /\ reg_r' = IF raised' = NoError THEN reg_r \ {fd} ELSE reg_r
    /\ reg_w' = IF raised' = NoError THEN reg_w \ {fd} ELSE reg_w
    /\ unregd' = IF raised' = NoError THEN unregd \cup {fd} ELSE unregd
    /\ UNCHANGED <<has_kqueue, has_poll, Poller, open, closed_reg, purged>>

\* the descriptors whose registration a poll with wait outcome err removes
\* as invalid: all of them on EBADF in SelectPoller, the POLLNVAL ones of the
\* batch in PollPoller
PurgedBy(err, batch) ==
    IF Poller = "SelectPoller"
    THEN (IF err = "EBADF" THEN FDs ELSE {})
    ELSE IF Poller = "PollPoller"
    THEN {batch[i][1] : i \in {k \in 1..Len(batch) : POLLNVAL \in batch[k][2]}}
    ELSE {}

PollHistory ==
    /\ reg_r' = reg_r \ PurgedBy(wait_err', fds')
    /\ reg_w' = reg_w \ PurgedBy(wait_err', fds')
    /\ purged' = IF raised' = NoError /\ wait_err' # "EINTR"
                 THEN purged \cup {fd \in closed_reg : ~Holds(fd)'}
                 ELSE purged
    /\ closed_reg' = IF raised' = NoError /\ wait_err' # "EINTR"
                     THEN {fd \in closed_reg : Holds(fd)'}
                     ELSE closed_reg
    /\ UNCHANGED unregd

\* poll whose wait call returns: the kernel sees rr read-ready, ww
\* write-ready and hh hung up
PollReturns ==
    \E rr \in SUBSET open, ww \in SUBSET open :
    \E hh \in SUBSET (IF Poller = "PollPoller" THEN open ELSE {}) :
        /\ CASE Poller = "SelectPoller" -> SelectPoller_poll(rr, ww, NoError)
             [] Poller = "PollPoller" -> PollPoller_poll(rr, ww, hh, NoError)
             [] Poller = "KQueuePoller" -> KQueuePoller_poll(rr, ww, NoError)
        /\ UNCHANGED <<has_kqueue, has_poll, Poller, open>>
        /\ op' = "poll"
        /\ arg' = 0
        /\ rdy_r' = rr
        /\ rdy_w' = ww
        /\ rdy_hup' = hh
        /\ PollHistory

\* poll whose wait call fails with e before any readiness is observed
\* (select fails with EBADF instead when a listed descriptor is closed)
PollFails ==
    \E e \in WaitErrors :
        /\ CASE Poller = "SelectPoller" -> SelectPoller_poll({}, {}, e)
             [] Poller = "PollPoller" -> PollPoller_poll({}, {}, {}, e)
             [] Poller = "KQueuePoller" -> KQueuePoller_poll({}, {}, e)
        /\ UNCHANGED <<has_kqueue, has_poll, Poller, open>>
        /\ op' = "poll"
        /\ arg' = 0
        /\ rdy_r' = {}
        /\ rdy_w' = {}
        /\ rdy_hup' = {}
        /\ PollHistory

\* the owner of fd closes it; the kernel drops the kqueue entries of a
\* closed descriptor
Close(fd) ==
    /\ fd \in open
    /\ open' = open \ {fd}
    /\ _kqueue' = {ev \in _kqueue : ev[1] # fd}
    /\ closed_reg' = IF Holds(fd) THEN closed_reg \cup {fd} ELSE closed_reg
    /\ op' = "close"
    /\ arg' = fd
    /\ raised' = NoError
    /\ NoResult
    /\ UNCHANGED <<has_kqueue, has_poll, Poller, readable, writable, _poller,
                   reg_r, reg_w, unregd, purged>>

Next ==
    \/ \E fd \in FDs : RegisterReadable(fd)
    \/ \E fd \in FDs : RegisterWritable(fd)
    \/ \E fd \in FDs : Unregister(fd)
    \/ PollReturns
    \/ PollFails
    \/ \E fd \in FDs : Close(fd)

Spec == Init /\ [][Next]_vars

TypeOK ==
    /\ Poller \in {"SelectPoller", "PollPoller", "KQueuePoller"}
    /\ open \subseteq FDs
    /\ Len(readable) + Len(writable) <= MaxLen
    /\ DOMAIN _poller \subseteq FDs
    /\ _kqueue \subseteq FDs \X {KQ_FILTER_READ, KQ_FILTER_WRITE}

(* ============================== properties ============================= *)
Reported(d) == list_contains(r, d) \/ list_contains(w, d)

PollReturned == op = "poll" /\ raised = NoError /\ wait_err = NoError

NoDuplicates(s) == \A i, j \in 1..Len(s) : s[i] = s[j] => i = j

(* C1: after unregister(d) has returned, no poll call reports d in either  *)
(* list until d is registered again, whatever was registered before and    *)
(* whatever the readiness of d.                                            *)
C1_UnregisteredNeverReported ==
    op = "poll" => \A d \in unregd : ~Reported(d)

(* C2: registration is idempotent: a second register_readable(fd) (or      *)
(* register_writable(fd)) right after a first one with the same fd leaves  *)
(* the registration state as the first call left it.                       *)
C2_RegisterIdempotent ==
    [][ /\ op \in {"register_readable", "register_writable"}
        /\ raised = NoError
        /\ op' = op
        /\ arg' = arg
        /\ raised' = NoError
        => UNCHANGED regvars ]_vars

(* C3: a descriptor registered with both register_readable and             *)
(* register_writable that is read-ready and write-ready is in both lists   *)
(* returned by one poll call.                                              *)
C3_BothInterestsReported ==
    PollReturned =>
        \A d \in reg_r \cap reg_w \cap rdy_r \cap rdy_w :
            list_contains(r, d) /\ list_contains(w, d)

(* C4: a registered descriptor found invalid during a poll call is purged  *)
(* and no error is raised.  In PollPoller every pair of the batch with     *)
(* POLLNVAL set has its fd unregistered and left out of both lists, every  *)
(* other pair is classified by its READ and WRITE bits, and the entries of *)
(* all other descriptors are kept; no closed descriptor is registered when *)
(* the poll call has returned.                                             *)
Invalid(batch) == {batch[i][1] : i \in {k \in 1..Len(batch) : POLLNVAL \in batch[k][2]}}

C4_InvalidPurged ==
    [][ /\ op' = "poll" /\ Poller = "PollPoller" /\ wait_err' = NoError
          => /\ raised' = NoError
             /\ \A i \in 1..Len(fds') :
                    LET fd == fds'[i][1]
                        eventmask == fds'[i][2]
                    IN  IF POLLNVAL \in eventmask
                        THEN /\ fd \notin DOMAIN _poller'
                             /\ ~list_contains(r', fd)
                             /\ ~list_contains(w', fd)
                        ELSE /\ list_contains(r', fd) <=> eventmask \cap READ # {}
                             /\ list_contains(w', fd) <=> eventmask \cap WRITE # {}
             /\ DOMAIN _poller' = DOMAIN _poller \ Invalid(fds')
             /\ \A fd \in DOMAIN _poller' : _poller'[fd] = _poller[fd]
             /\ Invalid(fds') = {fd \in DOMAIN _poller : fd \notin open}
        /\ op' = "poll" /\ wait_err' \notin WaitErrors /\ (\E fd \in FDs \ open : Holds(fd))
          => /\ raised' = NoError
             /\ \A fd \in FDs \ open : ~Holds(fd)' ]_vars

\* a poll of PollPoller whose batch had an invalid pair and a valid one
C4_Witness ==
    /\ PollReturned /\ Poller = "PollPoller"
    /\ \E i, j \in 1..Len(fds) :
          /\ POLLNVAL \in fds[i][2]
          /\ POLLNVAL \notin fds[j][2]
          /\ Reported(fds[j][1])
          /\ fds[i][1] \notin DOMAIN _poller

(* C5 as stated: once a descriptor closed while registered has been purged, *)
(* a following unregister of it raises no error in any backend, and no     *)
(* later poll reports it.                                                  *)
C5_UnregisterAfterPurgeSilent ==
    [][ /\ op' = "unregister" /\ arg' \in purged => raised' = NoError
        /\ op' = "poll" => \A d \in purged : ~Reported(d)' ]_vars

(* C5 as amended: once a descriptor closed while registered has been       *)
(* purged, a following unregister of it is a silent no-op in SelectPoller, *)
(* raises KeyError in PollPoller and EBADF in KQueuePoller, changes no     *)
(* registration in any backend, and no later poll reports the descriptor.  *)
C5_UnregisterAfterPurge ==
    [][ /\ op' = "unregister" /\ arg' \in purged
          => /\ UNCHANGED regvars
             /\ Poller = "SelectPoller" => raised' = NoError
             /\ Poller = "PollPoller" => raised' = "KeyError"
             /\ Poller = "KQueuePoller" => raised' = "EBADF"
        /\ op' = "poll" => \A d \in purged : ~Reported(d)' ]_vars

\* an unregister of a purged descriptor that raised in PollPoller
C5_Witness ==
    /\ op = "unregister" /\ arg \in purged
    /\ Poller = "PollPoller" /\ raised = "KeyError"

(* C6: a poll whose wait call is interrupted (EINTR) returns two empty     *)
(* lists, raises nothing and leaves the registration state as it was; the  *)
(* next poll whose wait call returns reports every descriptor whose held   *)
(* registration is ready.                                                  *)
C6_InterruptedPoll ==
    [][ /\ op' = "poll" /\ wait_err' = "EINTR"
          => /\ r' = <<>> /\ w' = <<>>
             /\ raised' = NoError
             /\ UNCHANGED regvars
        /\ op = "poll" /\ wait_err = "EINTR" /\ op' = "poll" /\ wait_err' = NoError
          => /\ raised' = NoError
             /\ \A d \in FDs :
                    /\ HoldsRead(d) /\ d \in rdy_r' => list_contains(r', d)
                    /\ HoldsWrite(d) /\ d \in rdy_w' => list_contains(w', d) ]_vars

\* an interrupted poll made while descriptors were registered
C6_Witness ==
    /\ op = "poll" /\ wait_err = "EINTR"
    /\ r = <<>> /\ w = <<>>
    /\ \E d \in FDs : HoldsRead(d)
    /\ \E d \in FDs : HoldsWrite(d)

(* C7: each of the two lists returned by poll contains every descriptor at *)
(* most once.                                                              *)
C7_NoDuplicates ==
    op = "poll" => NoDuplicates(r) /\ NoDuplicates(w)

(* C8: for d1 # d2 both registered readable, a poll made when only d1 is   *)
(* read-ready returns d1 in the readable list and not d2.                  *)
ReadReady == rdy_r \cup rdy_hup

C8_OnlyReadyReported ==
    PollReturned =>
        \A d1, d2 \in reg_r :
            d1 # d2 /\ d1 \in ReadReady /\ d2 \notin ReadReady
                => list_contains(r, d1) /\ ~list_contains(r, d2)

(* C9: with A registered only readable and B only writable and both ready, *)
(* poll returns readable = [A] and writable = [B]; in general a poll that  *)
(* returns reports exactly the registered descriptors whose registered     *)
(* interest is ready, each in the list of that interest.                   *)
C9_ExactlyReadyRegistered ==
    PollReturned =>
        /\ Range(r) = reg_r \cap ReadReady
        /\ Range(w) = reg_w \cap rdy_w
        /\ \A A, B \in FDs :
              reg_r = {A} /\ reg_w = {B} /\ A # B /\ A \in ReadReady /\ B \in rdy_w
                  => r = <<A>> /\ w = <<B>>

(* C10: unregister of a descriptor that holds no registration is a silent  *)
(* no-op in SelectPoller; in PollPoller and KQueuePoller it raises the     *)
(* error of the removal call and changes no registration.                  *)
C10_UnregisterUnregistered ==
    [][ op' = "unregister" /\ ~Holds(arg')
          => /\ UNCHANGED regvars
             /\ Poller = "SelectPoller" => raised' = NoError
             /\ Poller # "SelectPoller" => raised' # NoError ]_vars

\* a failed unregister of an unregistered descriptor, another one registered
C10_Witness ==
    /\ op = "unregister" /\ raised # NoError /\ ~Holds(arg)
    /\ \E d \in FDs \ {arg} : Holds(d)

(* C11: a poll whose wait call finds no held registration ready (no input, *)
(* no output, no hang-up on a registered descriptor: the timeout elapses)  *)
(* returns two empty lists and raises no error, in every backend and for   *)
(* every registration state.                                               *)
NothingReady(rr, ww, hh) ==
    \A d \in FDs :
        /\ HoldsRead(d) => d \notin rr
        /\ HoldsWrite(d) => d \notin ww
        /\ Holds(d) => d \notin hh

C12_ResultOrError ==
    op = "poll" =>
        /\ raised # NoError => r = <<>> /\ w = <<>>
        /\ raised = NoError => Range(r) \cup Range(w) \subseteq FDs
        /\ wait_err \in {NoError, "EINTR"} => raised = NoError
        /\ wait_err = "EBADF" => Poller = "SelectPoller" /\ raised = NoError
        /\ wait_err \notin {NoError, "EINTR", "EBADF"} => raised = wait_err

\* a poll whose wait call failed fatally while descriptors were registered
C12_Witness ==
    /\ op = "poll" /\ wait_err = "ENOMEM" /\ raised = "ENOMEM"
    /\ \E d \in FDs : Holds(d)

(* C13: the backend is a function of the two capabilities: KQueuePoller    *)
(* when kqueue exists, PollPoller when only poll exists, SelectPoller when *)
(* neither does; no call changes it.                                       *)
C13_BackendChoice ==
    /\ [](/\ has_kqueue => Poller = "KQueuePoller"
          /\ ~has_kqueue /\ has_poll => Poller = "PollPoller"
          /\ ~has_kqueue /\ ~has_poll => Poller = "SelectPoller")
    /\ [][Poller' = Poller]_vars

\* both primitives exist and the kqueue backend is still in use after a poll
C13_Witness ==
    /\ has_kqueue /\ has_poll /\ Poller = "KQueuePoller"
    /\ op = "poll" /\ r # <<>>

(* C14: in KQueuePoller, unregister(fd) of an open descriptor registered   *)
(* for one or both interests raises no error and leaves neither a read nor *)
(* a write registration of fd.                                             *)
C14_KqueueUnregisterBoth ==
    [][ Poller = "KQueuePoller" /\ op' = "unregister" /\ arg' \in open /\ Holds(arg')
          => /\ raised' = NoError
             /\ <<arg', KQ_FILTER_READ>> \notin _kqueue'
             /\ <<arg', KQ_FILTER_WRITE>> \notin _kqueue' ]_vars

(* C15: in SelectPoller, a wait call failing with EBADF makes poll clear   *)
(* both interest lists, return two empty lists and raise nothing; a poll   *)
(* made while both lists are empty reports no descriptor.                  *)
C15_BadDescriptorClearsAll ==
    [][ /\ Poller = "SelectPoller" /\ op' = "poll" /\ wait_err' = "EBADF"
          => /\ readable' = <<>> /\ writable' = <<>>
             /\ r' = <<>> /\ w' = <<>>
             /\ raised' = NoError
        /\ Poller = "SelectPoller" /\ op' = "poll" /\ readable = <<>> /\ writable = <<>>
          => r' = <<>> /\ w' = <<>> ]_vars

\* an EBADF poll of SelectPoller that purged a closed descriptor
C15_Witness ==
    /\ Poller = "SelectPoller" /\ op = "poll" /\ wait_err = "EBADF"
    /\ purged # {} /\ open # {}
    /\ readable = <<>> /\ writable = <<>>

(* C16: the registration state changes only by register_readable,          *)
(* register_writable, unregister, a poll that detects an invalid           *)
(* descriptor, and the kernel dropping the kqueue entries of a descriptor  *)
(* that is closed; a poll that detects no invalid descriptor (timed out,   *)
(* interrupted, failed or reporting descriptors) leaves it unchanged.      *)
DetectsInvalid ==
    \/ Poller = "SelectPoller" /\ wait_err' = "EBADF"
    \/ Poller = "PollPoller" /\ Invalid(fds') # {}

C16_PollFrame ==
    [][ /\ op' = "poll" /\ ~DetectsInvalid => UNCHANGED regvars
        /\ regvars' # regvars =>
              \/ op' \in {"register_readable", "register_writable", "unregister"}
              \/ op' = "poll" /\ DetectsInvalid
              \/ op' = "close" /\ Poller = "KQueuePoller" ]_vars

\* a poll that reported a descriptor on a hang-up and kept its registration
C16_Witness ==
    /\ PollReturned /\ Poller = "PollPoller"
    /\ \E d \in rdy_hup : list_contains(r, d) /\ d \in DOMAIN _poller

C18_ResultsRespectInterest ==
    op = "poll" =>
        /\ \A d \in Range(r) : HoldsRead(d)
        /\ \A d \in Range(w) : HoldsWrite(d)
====
